---- MODULE Spec2Model ----
(***************************************************************************)
(* Particle clustering animation (clustering_game.cc): the neutron store,  *)
(* initialize_neutrons, move_neutrons (one tick), draw_neutrons and the    *)
(* main loop that drives them.                                             *)
(*                                                                         *)
(* Lengths are fixed-point: one unit is 1/Milli cm.  Time steps are whole  *)
(* microseconds.  Store indices are 1-based (source index + 1).            *)
(***************************************************************************)
EXTENDS Integers, Sequences, FiniteSets, TLC

VARIABLES
    pc,        \* position of the program: start, exit1, idle, scan, spawn, resample, move, draw, quit
    neuts,     \* std::vector<Neutron> neutrons
    nn,        \* scan cursor of move_neutrons
    n_new,     \* progeny still to create in the current fission
    dt,        \* time step of the current tick, in microseconds
    nvalid,    \* whether the reference n still points into the vector's storage
    outcome,   \* how the collision of the particle under the cursor was resolved
    tickNo,    \* number of move_neutrons calls begun
    firstPos,  \* tickNo of the first tick with dt > 0 (0: none yet)
    n_neuts,   \* the particle count given on the command line
    snap,      \* the store when the current tick began
    collided,  \* indices whose collision was resolved in the current tick
    made,      \* indices written for fission progeny in the current tick
    pre,       \* the store when the current collision began
    born,      \* indices of the progeny created by the current fission, in order
    argc,      \* argument count main was started with (0 until main reads it)
    origin,    \* per slot, the position its particle had when the tick began or when it was created in the tick
    behind,    \* indices recycled for a progeny in the current tick while the cursor was already past them
    dangled,   \* indices whose motion in the current tick was written through n while n dangled
    xi         \* rand() value of the draw that selected the outcome of the current collision

vars == <<pc, neuts, nn, n_new, dt, nvalid, outcome, tickNo, firstPos, n_neuts,
          snap, collided, made, pre, born, argc, origin, behind, dangled, xi>>

----------------------------------------------------------------------------
\* Bounds of the model.

\* largest particle count given on the command line
MaxN == 2
\* largest particle count given to initialize_neutrons alone (SpecInit)
MaxInitN == 8
\* number of ticks the driver runs
MaxTicks == 2
\* largest store length
MaxStore == 9
\* the model's RAND_MAX: rand() returns 0..RAND_MAX
RAND_MAX == 91

----------------------------------------------------------------------------
\* Program constants.

WIDTH == 1920
HEIGHT == 1080
NEUT_SIZE == 3

\* fixed-point resolution of the double-valued lengths
Milli == 1000

\* nu = 2.5 as the fraction NuNum / NuDen
NuNum == 5
NuDen == 2

\* cross sections, all times 300: 0.27, 0.02, 0.02/(nu-1), and their sum
sig_s == 81
sig_c == 6
sig_f == (sig_c * NuDen) \div (NuNum - NuDen)
sig_t == sig_s + sig_c + sig_f

\* vel = 2e6 cm/s = 2 cm per microsecond
vel == 2 * Milli

\* time steps the driver passes to move_neutrons, in microseconds (main: 1)
DtSet == {0, 1}

\* +infinity of the double type: -log(0.0) / sig_t
Inf == 1000000000

\* ln(2) / sig_t, in 1/Milli cm
HalfValue == 2285

\* unit vectors returned by openmc::Isotropic::sample
Dirs == {<<1, 0, 0>>, <<0, -1, 0>>}

\* tags returned by random_color
Colors == {"c1", "c2"}

\* Color{0, 0, 0} of a value-initialized Neutron
ZeroColor == "zero"

----------------------------------------------------------------------------
\* Arithmetic of the double type, on fixed-point values.

Max(a, b) == IF a >= b THEN a ELSE b

\* (int) of a double: truncation toward zero, in whole cm
Trunc(x) == IF x >= 0 THEN x \div Milli ELSE -((-x) \div Milli)

\* x - y on doubles, where x may be +infinity
FSub(x, y) == IF x = Inf THEN Inf ELSE x - y

\* r + u * dist on Position
VAdd(r, u, dist) == <<r[1] + u[1] * dist, r[2] + u[2] * dist, r[3] + u[3] * dist>>

RECURSIVE ISqrtFrom(_, _)
ISqrtFrom(n, k) == IF (k + 1) * (k + 1) > n THEN k ELSE ISqrtFrom(n, k + 1)

\* (int) std::sqrt(n)
ISqrt(n) == ISqrtFrom(n, 0)

----------------------------------------------------------------------------
\* Random draws.

\* values rand() can return
RandRange == 0 .. RAND_MAX

\* randf() < sig_c / sig_t, for randf() = k / RAND_MAX
InCaptureBand(k) == k * sig_t < sig_c * RAND_MAX

\* randf() < (sig_c + sig_f) / sig_t
BelowFissionEdge(k) == k * sig_t < (sig_c + sig_f) * RAND_MAX

\* the branch move_neutrons takes for the draw xi = k / RAND_MAX
Outcome(k) ==
    IF InCaptureBand(k) THEN "capture"
    ELSE IF BelowFissionEdge(k) THEN "fission"
    ELSE "scatter"

\* draws of xi that are tried: the ends of the range and both sides of each band edge
XiDraws ==
    {k \in RandRange :
        \/ k \in {0, RAND_MAX}
        \/ Outcome(k) # Outcome(k - 1)
        \/ Outcome(k) # Outcome(k + 1)}

\* n_new after "n_new = (int)nu; if (randf() < nu-n_new) n_new++; n_new--;"
NNew(k) ==
    LET whole == NuNum \div NuDen
        more  == IF k * NuDen < (NuNum - whole * NuDen) * RAND_MAX THEN 1 ELSE 0
    IN  whole + more - 1

\* draws of the second randf() that are tried
YieldDraws == {0, RAND_MAX}

RECURSIVE Halvings(_, _)
\* number of doublings that take k (> 0) to RAND_MAX or beyond
Halvings(k, h) == IF k >= RAND_MAX THEN h ELSE Halvings(2 * k, h + 1)

\* -log(k / RAND_MAX) / sig_t, rounded up to a whole number of half-value lengths;
\* -log(0) is +infinity and -log(1) is 0
ExpSample(k) == IF k = 0 THEN Inf ELSE Halvings(k, 0) * HalfValue

\* draws of randf() tried where a free flight is sampled
FlightDraws == {(RAND_MAX \div 2) + 1}

----------------------------------------------------------------------------
\* struct Neutron and the store.

\* a value-initialized Neutron, as vector's constructor and resize make it
ZeroNeutron ==
    [r |-> <<0, 0, 0>>, u |-> <<0, 0, 0>>, distance_to_collision |-> 0,
     alive |-> FALSE, c |-> ZeroColor]

\* indices of the store
Slots(s) == 1 .. Len(s)

LiveSet(s) == {i \in Slots(s) : s[i].alive}

DeadSet(s) == {i \in Slots(s) : ~s[i].alive}

LiveCount(s) == Cardinality(LiveSet(s))

\* GridNeutron with a collision already due
GridNeutronDue(row, col, dr, dc, udir, color) ==
    [r |-> <<(dc * Milli) \div 2 + col * dc * Milli,
             (dr * Milli) \div 2 + row * dr * Milli, 0>>,
     u |-> udir, distance_to_collision |-> -1, alive |-> TRUE, c |-> color]

\* the particle of the grid at (row, col), lines 99-106
GridNeutron(row, col, dr, dc, udir, color) ==
    [r |-> <<(dc * Milli) \div 2 + col * dc * Milli,
             (dr * Milli) \div 2 + row * dr * Milli, 0>>,
     u |-> udir, distance_to_collision |-> 0, alive |-> TRUE, c |-> color]

\* GridRows with a floor of one row
GridRowsFloor(n) == Max(1, ISqrt(n \div 2))

\* GridRows without the halving of the size
GridRowsNoHalf(n) == ISqrt(n)

\* number of rows and columns of the grid for a vector of size n
GridRows(n) == ISqrt(n \div 2)

GridCols(n) == 2 * GridRows(n)

\* number of particles initialize_neutrons makes alive for a vector of size n
GridLive(n) == GridRows(n) * GridCols(n)

\* the store initialize_neutrons leaves, given a vector of size n, and the
\* directions us and colors cs drawn for the grid's particles
initialize_neutrons(n, us, cs) ==
    LET nrows   == GridRows(n)
        ncols   == GridCols(n)
        dr      == HEIGHT \div (nrows + 1)
        dc      == WIDTH \div (ncols + 1)
        oldsize == nrows * ncols
    IN  [i \in 1 .. 2 * oldsize |->
            IF i <= oldsize
            THEN GridNeutron((i - 1) \div ncols, (i - 1) % ncols, dr, dc, us[i], cs[i])
            ELSE ZeroNeutron]

\* one coordinate after draw_neutrons' wrap-around, lines 121-126
Wrap(x, extent) ==
    LET pos == Trunc(x)
    IN  IF pos > extent - NEUT_SIZE \div 2 THEN (NEUT_SIZE \div 2) * Milli
        ELSE IF pos < NEUT_SIZE \div 2 THEN (extent - NEUT_SIZE) * Milli
        ELSE x

\* the store after draw_neutrons: live particles near an edge are moved
draw_neutrons(s) ==
    [i \in Slots(s) |->
        IF s[i].alive
        THEN [s[i] EXCEPT !.r = <<Wrap(s[i].r[1], WIDTH), Wrap(s[i].r[2], HEIGHT), s[i].r[3]>>]
        ELSE s[i]]

\* Due with the comparison <= in place of <
DueOrZero(d) == d <= 0

\* distance_to_collision < 0, line 144
Due(d) == d < 0

\* FindDead scanning from the end of the store: the last dead slot
FindDeadLast(s) ==
    IF DeadSet(s) = {} THEN 0
    ELSE CHOOSE i \in DeadSet(s) : \A j \in DeadSet(s) : i >= j

\* the scan "for (nnn = 0; ...) if (not nprime.alive)": the first dead slot, 0 if none
FindDead(s) ==
    IF DeadSet(s) = {} THEN 0
    ELSE CHOOSE i \in DeadSet(s) : \A j \in DeadSet(s) : i <= j

\* Capture with the slot erased from the vector instead of marked dead
CaptureErase(s, i) == SubSeq(s, 1, i - 1) \o SubSeq(s, i + 1, Len(s))

\* Capture with the assignment left out
CaptureKeep(s, i) == s

\* "n.alive = false", line 148
Capture(s, i) == [s EXCEPT ![i].alive = FALSE]

\* Recycle without the new free flight: the progeny keeps the parent's
RecycleKeepFlight(s, m, src, udir, k) == [s EXCEPT ![m] = [src EXCEPT !.u = udir]]

\* "nprime = n" and the two assignments after it, lines 163-165
Recycle(s, m, src, udir, k) ==
    [s EXCEPT ![m] = [src EXCEPT !.u = udir, !.distance_to_collision = ExpSample(k)]]

\* EmplaceBack without the new free flight: the progeny keeps the parent's
EmplaceBackKeepFlight(s, src, udir, k) == Append(s, [src EXCEPT !.u = udir])

\* "neuts.emplace_back(n)" and the two assignments after it, lines 171-173
EmplaceBack(s, src, udir, k) ==
    Append(s, [src EXCEPT !.u = udir, !.distance_to_collision = ExpSample(RAND_MAX - k)])

\* lines 179-180, written through the reference n
Resampled(p, udir, k) == [p EXCEPT !.distance_to_collision = ExpSample(k), !.u = udir]

\* Moved without the decrement of distance_to_collision
MovedNoFlight(p, dist) == [p EXCEPT !.r = VAdd(p.r, p.u, dist)]

\* lines 184-186, written through the reference n
Moved(p, dist) ==
    [p EXCEPT !.r = VAdd(p.r, p.u, dist),
              !.distance_to_collision = FSub(p.distance_to_collision, dist)]

\* what a freed block can hold when it is read: zero-filled or pattern-filled
FreedFill ==
    {ZeroNeutron,
     [r |-> <<-Milli, -Milli, -Milli>>, u |-> <<0, 0, 0>>, distance_to_collision |-> -Milli,
      alive |-> TRUE, c |-> "junk"]}

\* WriteN with the write landing in the vector even when n dangles
WriteNAlways(s, i, valid, p) == [s EXCEPT ![i] = p]

\* values a read of *n can give: the element while n is valid; after a
\* reallocation n dangles, and the read gives the stale element or a freed block's fill
ReadN(s, i, valid, stale) == IF valid THEN {s[i]} ELSE {stale} \cup FreedFill

\* the store after a write of p through n: lost when n dangles
WriteN(s, i, valid, p) == IF valid THEN [s EXCEPT ![i] = p] ELSE s

----------------------------------------------------------------------------
\* The program.

Init ==
    /\ pc = "start"
    /\ neuts = <<>>
    /\ nn = 0
    /\ n_new = 0
    /\ dt = 0
    /\ nvalid = TRUE
    /\ outcome = "none"
    /\ tickNo = 0
    /\ firstPos = 0
    /\ n_neuts = 0
    /\ snap = <<>>
    /\ collided = {}
    /\ made = {}
    /\ pre = <<>>
    /\ born = <<>>
    /\ argc = 0
    /\ origin = <<>>
    /\ behind = {}
    /\ dangled = {}
    /\ xi = 0

\* an argument count of 1 or more passes
ArgsOkAtLeast(a) == a >= 2

\* main, line 191: the argument count main accepts, one argument (argc = 2)
ArgsOk(a) == a = 2

\* main, lines 191-194: any argument count but one (argc # 2) exits with code 1
Usage(a) ==
    /\ pc = "start"
    /\ ~ArgsOk(a)
    /\ pc' = "exit1"
    /\ argc' = a
    /\ UNCHANGED <<neuts, nn, n_new, dt, nvalid, outcome, tickNo, firstPos, n_neuts,
                   snap, collided, made, pre, born, origin, behind, dangled, xi>>

\* main, lines 195-199: a vector of n_neuts value-initialized Neutrons, then
\* initialize_neutrons
Main(a, n) ==
    /\ pc = "start"
    /\ ArgsOk(a)
    /\ \E us \in [1 .. GridLive(n) -> Dirs], cs \in [1 .. GridLive(n) -> Colors] :
          neuts' = initialize_neutrons(n, us, cs)
    /\ n_neuts' = n
    /\ pc' = "idle"
    /\ argc' = a
    /\ UNCHANGED <<nn, n_new, dt, nvalid, outcome, tickNo, firstPos, snap, collided, made,
                   pre, born, origin, behind, dangled, xi>>

\* main, line 226: the call move_neutrons(neutrons, dt); the scan starts at index 0
TickBegin(d) ==
    /\ pc = "idle"
    /\ tickNo < MaxTicks
    /\ pc' = "scan"
    /\ nn' = 1
    /\ dt' = d
    /\ tickNo' = tickNo + 1
    /\ firstPos' = IF firstPos = 0 /\ d > 0 THEN tickNo + 1 ELSE firstPos
    /\ snap' = neuts
    /\ collided' = {}
    /\ made' = {}
    /\ origin' = [i \in Slots(neuts) |-> neuts[i].r]
    /\ behind' = {}
    /\ dangled' = {}
    /\ UNCHANGED <<neuts, n_new, nvalid, outcome, n_neuts, pre, born, argc, xi>>

\* line 143: a dead slot is skipped
Skip ==
    /\ pc = "scan"
    /\ nn <= Len(neuts)
    /\ ~neuts[nn].alive
    /\ nn' = nn + 1
    /\ UNCHANGED <<pc, neuts, n_new, dt, nvalid, outcome, tickNo, firstPos, n_neuts,
                   snap, collided, made, pre, born, argc, origin, behind, dangled, xi>>

\* line 144, condition false: no collision is due, the particle only moves
NoCollide ==
    /\ pc = "scan"
    /\ nn <= Len(neuts)
    /\ neuts[nn].alive
    /\ ~Due(neuts[nn].distance_to_collision)
    /\ pc' = "move"
    /\ UNCHANGED <<neuts, nn, n_new, dt, nvalid, outcome, tickNo, firstPos, n_neuts,
                   snap, collided, made, pre, born, argc, origin, behind, dangled, xi>>

\* lines 144-156: a due collision is resolved by the draw xi = k / RAND_MAX;
\* for fission the second draw k2 / RAND_MAX sets the number of progeny
Collide(k, k2) ==
    /\ pc = "scan"
    /\ nn <= Len(neuts)
    /\ neuts[nn].alive
    /\ Due(neuts[nn].distance_to_collision)
    /\ outcome' = Outcome(k)
    /\ pre' = neuts
    /\ collided' = collided \cup {nn}
    /\ IF Outcome(k) = "capture"
       THEN /\ neuts' = Capture(neuts, nn)
            /\ n_new' = 0
            /\ pc' = "resample"
       ELSE IF Outcome(k) = "fission"
       THEN /\ Len(neuts) + Max(0, NNew(k2) - Cardinality(DeadSet(neuts))) <= MaxStore
            /\ neuts' = neuts
            /\ n_new' = NNew(k2)
            /\ pc' = IF NNew(k2) > 0 THEN "spawn" ELSE "resample"
       ELSE /\ neuts' = neuts
            /\ n_new' = 0
            /\ pc' = "resample"
    /\ xi' = k
    /\ UNCHANGED <<nn, dt, nvalid, tickNo, firstPos, n_neuts, snap, made, born, argc, origin, behind, dangled>>

\* lines 158-176, one pass of the while loop: the progeny is a copy of *n with
\* its own direction udir and free flight from the draw k / RAND_MAX, put into the
\* first dead slot, or appended when there is none; an append may reallocate
\* the storage, and then n dangles
Spawn(udir, k, realloc) ==
    /\ pc = "spawn"
    /\ n_new > 0
    /\ \E src \in ReadN(neuts, nn, nvalid, pre[nn]) :
          IF FindDead(neuts) # 0
          THEN /\ neuts' = Recycle(neuts, FindDead(neuts), src, udir, k)
               /\ born' = Append(born, FindDead(neuts))
               /\ made' = made \cup {FindDead(neuts)}
               /\ origin' = [origin EXCEPT ![FindDead(neuts)] = src.r]
               /\ behind' = IF FindDead(neuts) < nn THEN behind \cup {FindDead(neuts)} ELSE behind
               /\ nvalid' = nvalid
               /\ ~realloc
          ELSE /\ neuts' = EmplaceBack(neuts, src, udir, k)
               /\ born' = Append(born, Len(neuts) + 1)
               /\ made' = made \cup {Len(neuts) + 1}
               /\ origin' = Append(origin, src.r)
               /\ behind' = behind
               /\ nvalid' = (nvalid /\ ~realloc)
    /\ n_new' = n_new - 1
    /\ pc' = IF n_new - 1 > 0 THEN "spawn" ELSE "resample"
    /\ UNCHANGED <<nn, dt, outcome, tickNo, firstPos, n_neuts, snap, collided, pre, argc, dangled, xi>>

\* lines 179-180: after any collision the particle's own free flight and
\* direction are sampled again, through n
Resample(udir, k) ==
    /\ pc = "resample"
    /\ \E p \in ReadN(neuts, nn, nvalid, pre[nn]) :
          neuts' = WriteN(neuts, nn, nvalid, Resampled(p, udir, k))
    /\ pc' = "move"
    /\ UNCHANGED <<nn, n_new, dt, nvalid, outcome, tickNo, firstPos, n_neuts, snap,
                   collided, made, pre, born, argc, origin, behind, dangled, xi>>

\* lines 184-187: motion through n, then the cursor advances and the next
\* iteration binds n anew
Move ==
    /\ pc = "move"
    /\ \E p \in ReadN(neuts, nn, nvalid, neuts[nn]) :
          neuts' = WriteN(neuts, nn, nvalid, Moved(p, vel * dt))
    /\ nn' = nn + 1
    /\ pc' = "scan"
    /\ nvalid' = TRUE
    /\ outcome' = "none"
    /\ pre' = <<>>
    /\ born' = <<>>
    /\ dangled' = IF nvalid THEN dangled ELSE dangled \cup {nn}
    /\ xi' = 0
    /\ UNCHANGED <<n_new, dt, tickNo, firstPos, n_neuts, snap, collided, made, argc, origin, behind>>

\* line 141: the scan ends when the cursor reaches the (current) size
TickEnd ==
    /\ pc = "scan"
    /\ nn > Len(neuts)
    /\ pc' = "draw"
    /\ UNCHANGED <<neuts, nn, n_new, dt, nvalid, outcome, tickNo, firstPos, n_neuts,
                   snap, collided, made, pre, born, argc, origin, behind, dangled, xi>>

\* main, line 227: draw_neutrons, which wraps live particles at the edges
Draw ==
    /\ pc = "draw"
    /\ neuts' = draw_neutrons(neuts)
    /\ pc' = "idle"
    /\ origin' = <<>>
    /\ UNCHANGED <<nn, n_new, dt, nvalid, outcome, tickNo, firstPos, n_neuts, snap,
                   collided, made, pre, born, argc, behind, dangled, xi>>

\* main, lines 216-221: SDL_QUIT ends the loop
Quit ==
    /\ pc = "idle"
    /\ pc' = "quit"
    /\ UNCHANGED <<neuts, nn, n_new, dt, nvalid, outcome, tickNo, firstPos, n_neuts,
                   snap, collided, made, pre, born, argc, origin, behind, dangled, xi>>

\* argument counts tried
ArgCounts == {1, 2, 3}

Next ==
    \/ \E a \in ArgCounts : Usage(a)
    \/ \E a \in ArgCounts, n \in 0 .. MaxN : Main(a, n)
    \/ \E d \in DtSet : TickBegin(d)
    \/ Skip
    \/ NoCollide
    \/ \E k \in XiDraws, k2 \in YieldDraws : Collide(k, k2)
    \/ \E udir \in Dirs, k \in FlightDraws, realloc \in BOOLEAN : Spawn(udir, k, realloc)
    \/ \E udir \in Dirs, k \in FlightDraws : Resample(udir, k)
    \/ Move
    \/ TickEnd
    \/ Draw
    \/ Quit

Spec == Init /\ [][Next]_vars

\* initialize_neutrons alone, over more particle counts
InitNext ==
    \/ \E a \in ArgCounts : Usage(a)
    \/ \E a \in ArgCounts, n \in 0 .. MaxInitN : Main(a, n)

SpecInit == Init /\ [][InitNext]_vars

----------------------------------------------------------------------------
\* Properties.

\* program positions inside move_neutrons
TickPcs == {"scan", "spawn", "resample", "move"}

\* C1: once initialize_neutrons has run, no step (between ticks or inside one)
\* shortens the store, and the number of live particles never exceeds its length
C1_LengthMonotone ==
    [][pc # "start" =>
          /\ Len(neuts') >= Len(neuts)
          /\ LiveCount(neuts') <= Len(neuts')]_vars

\* a tick during which the store grew has ended
C1_Witness == pc = "draw" /\ Len(neuts) > Len(snap)

\* C2: a collision resolved as capture leaves the particle dead, creates no
\* particle, lowers the live count by exactly 1 and keeps the store's length
C2_Capture ==
    (outcome = "capture" /\ pc \in {"resample", "move"}) =>
        /\ pre[nn].alive
        /\ ~neuts[nn].alive
        /\ born = <<>>
        /\ Len(neuts) = Len(pre)
        /\ LiveCount(neuts) = LiveCount(pre) - 1
        /\ \A i \in Slots(pre) : i # nn => neuts[i] = pre[i]

\* a capture has been resolved and the particle's own fields sampled again
C2_Witness == outcome = "capture" /\ pc = "move"

\* C3: a collision resolved as fission leaves the parent alive in its own
\* slot and creates exactly floor(nu)-1 or floor(nu) new live particles, so the
\* live count rises by that number; no progeny is written into the parent's slot
C3_Fission ==
    (outcome = "fission" /\ pc \in {"resample", "move"}) =>
        /\ neuts[nn].alive
        /\ Len(born) \in {(NuNum \div NuDen) - 1, NuNum \div NuDen}
        /\ \A j \in 1 .. Len(born) : born[j] # nn /\ neuts[born[j]].alive
        /\ LiveCount(neuts) = LiveCount(pre) + Len(born)

\* C4: a progeny is written into the lowest-index dead slot when a dead slot
\* exists (the store keeps its length and no other slot changes) and is appended
\* only when every slot is alive; the store grows at a step only if it holds no
\* dead slot at that step
C4_FirstFit ==
    [][/\ pc = "spawn" =>
            IF DeadSet(neuts) # {}
            THEN LET m == CHOOSE i \in DeadSet(neuts) : \A j \in DeadSet(neuts) : i <= j
                 IN  /\ Len(neuts') = Len(neuts)
                     /\ neuts'[m].alive
                     /\ \A i \in Slots(neuts) : i # m => neuts'[i] = neuts[i]
            ELSE /\ Len(neuts') = Len(neuts) + 1
                 /\ \A i \in Slots(neuts) : neuts'[i] = neuts[i]
       /\ Len(neuts') > Len(neuts) => DeadSet(neuts) = {}]_vars

\* one fission whose first progeny took the last dead slot and whose second
\* progeny was appended
C4_Witness ==
    /\ pc = "resample"
    /\ Len(born) = 2
    /\ born[1] <= Len(pre)
    /\ born[1] > 1
    /\ born[2] = Len(pre) + 1

\* C5: after any collision resolution, and before the motion, the particle's
\* own slot holds a newly sampled distance_to_collision >= 0
C5_OwnFlight ==
    (pc = "move" /\ outcome # "none") => neuts[nn].distance_to_collision >= 0

\* C6: every progeny of a fission, recycled or appended, is alive and has the
\* position and tag the parent had when the collision began, a sampled direction
\* and a distance_to_collision >= 0
C6_Progeny ==
    (pc \in {"spawn", "resample", "move"}) =>
        \A j \in 1 .. Len(born) :
            /\ neuts[born[j]].alive
            /\ neuts[born[j]].r = pre[nn].r
            /\ neuts[born[j]].c = pre[nn].c
            /\ neuts[born[j]].u \in Dirs
            /\ neuts[born[j]].distance_to_collision >= 0

\* C7: for a requested count N >= 0, initialize_neutrons uses
\* rows = floor(sqrt(N/2)) and cols = 2*rows, and leaves a store of 2*rows*cols
\* slots: the first rows*cols alive with distance_to_collision = 0, the rest dead
C7_Grid ==
    (pc = "idle" /\ tickNo = 0) =>
        LET rows == CHOOSE q \in 0 .. n_neuts :
                        2 * q * q <= n_neuts /\ n_neuts < 2 * (q + 1) * (q + 1)
            cols == 2 * rows
        IN  /\ GridRows(n_neuts) = rows
            /\ GridCols(n_neuts) = cols
            /\ Len(neuts) = 2 * rows * cols
            /\ \A i \in Slots(neuts) :
                  IF i <= rows * cols
                  THEN neuts[i].alive /\ neuts[i].distance_to_collision = 0
                  ELSE ~neuts[i].alive

\* initialize_neutrons has laid out a grid of two rows and four columns
C7_Witness == pc = "idle" /\ n_neuts = 8 /\ Len(neuts) = 16 /\ LiveCount(neuts) = 8

C9_FirstTick ==
    (pc = "draw" /\ firstPos > 0 /\ tickNo = firstPos) =>
        \A i \in 1 .. GridLive(n_neuts) : i \in collided

\* C9 as amended: up to and including the first tick with dt > 0 no collision
\* is resolved (distance_to_collision = 0 is not < 0); that tick leaves every
\* initial particle with distance_to_collision = -vel*dt, and each of them has
\* its collision resolved during the tick after it
C9_SecondTick ==
    /\ (firstPos = 0 \/ tickNo <= firstPos) => collided = {}
    /\ (pc = "draw" /\ firstPos > 0 /\ tickNo = firstPos) =>
          \A i \in 1 .. GridLive(n_neuts) :
              neuts[i].alive /\ neuts[i].distance_to_collision = -(vel * dt)
    /\ (pc = "draw" /\ firstPos > 0 /\ tickNo = firstPos + 1) =>
          \A i \in 1 .. GridLive(n_neuts) : i \in collided

\* the tick after the first tick with dt > 0 has ended, every initial particle collided
C9_Witness ==
    /\ pc = "draw"
    /\ firstPos > 0
    /\ tickNo = firstPos + 1
    /\ GridLive(n_neuts) > 0
    /\ collided = 1 .. GridLive(n_neuts)

\* C10: at the end of a tick, a particle that was alive when the tick began and
\* did not collide in it has moved by direction*vel*dt and had vel*dt taken off
\* its distance_to_collision, once, with direction, tag and alive flag unchanged
C10_Motion ==
    pc = "draw" =>
        \A i \in Slots(snap) :
            (snap[i].alive /\ i \notin collided) =>
                /\ neuts[i].r = <<snap[i].r[1] + snap[i].u[1] * vel * dt,
                                  snap[i].r[2] + snap[i].u[2] * vel * dt,
                                  snap[i].r[3] + snap[i].u[3] * vel * dt>>
                /\ neuts[i].distance_to_collision =
                       (IF snap[i].distance_to_collision = Inf THEN Inf
                        ELSE snap[i].distance_to_collision - vel * dt)
                /\ neuts[i].u = snap[i].u
                /\ neuts[i].c = snap[i].c
                /\ neuts[i].alive

\* a tick with dt > 0 has ended in which a live particle did not collide
C10_Witness ==
    /\ pc = "draw"
    /\ dt > 0
    /\ \E i \in Slots(snap) : snap[i].alive /\ i \notin collided

\* C11 as stated: a particle created by fission in this tick, in a slot ahead
\* of the cursor, can undergo collision resolution in the same tick: when the
\* cursor reaches it, the collision branch can be taken
C11_CanCollide ==
    (pc = "scan" /\ nn <= Len(neuts) /\ nn \in made /\ neuts[nn].alive) =>
        ENABLED (\E k \in XiDraws, k2 \in YieldDraws : Collide(k, k2))

\* C11 as amended: no particle created by fission in a tick has a collision
\* resolved in that tick; every free flight the samplers can give is >= 0, which is
\* not due, so the cursor only moves such a particle
C11_NoSameTick ==
    /\ pc = "start" =>
          \A k \in RandRange : ~Due(ExpSample(k)) /\ ~Due(ExpSample(RAND_MAX - k))
    /\ (pc \in {"spawn", "resample"} \/ (pc = "move" /\ outcome # "none")) => nn \notin made
    /\ (pc = "scan" /\ nn <= Len(neuts) /\ nn \in made /\ neuts[nn].alive) =>
          ~Due(neuts[nn].distance_to_collision)

\* the cursor has reached a live particle created in this tick, and only moves it
C11_Witness == pc = "move" /\ nn \in made /\ neuts[nn].alive /\ outcome = "none"

\* C12: the live particles initialize_neutrons leaves sit on a rectangular grid
\* with a uniform horizontal spacing dc and vertical spacing dr, with a margin of
\* half the spacing on every side: the first column is dc/2 from x = 0 and the
\* last column dc/2 from x = WIDTH, the first row dr/2 from y = 0 and the last row
\* dr/2 from y = HEIGHT
C12_Margins ==
    (pc = "idle" /\ tickNo = 0 /\ Len(neuts) > 0) =>
        LET rows == GridRows(n_neuts)
            cols == GridCols(n_neuts)
            dcS  == 2 * neuts[1].r[1]
            drS  == 2 * neuts[1].r[2]
        IN  /\ \A i \in 1 .. rows * cols :
                  /\ neuts[i].r[1] = dcS \div 2 + ((i - 1) % cols) * dcS
                  /\ neuts[i].r[2] = drS \div 2 + ((i - 1) \div cols) * drS
            /\ WIDTH * Milli - neuts[rows * cols].r[1] = dcS \div 2
            /\ HEIGHT * Milli - neuts[rows * cols].r[2] = drS \div 2

\* C13: started with an argument count other than exactly one (argc # 2), the
\* program exits with code 1 before any particle store is created, initialized or
\* ticked
C13_UsageExit ==
    /\ []((pc # "start" /\ argc # 2) =>
            /\ pc = "exit1"
            /\ neuts = <<>> /\ n_neuts = 0
            /\ tickNo = 0 /\ snap = <<>> /\ nn = 0)
    /\ [][pc = "exit1" => pc' = "exit1"]_vars

\* main was started with no argument, or with two, and has exited with code 1
C13_Witness == pc = "exit1" /\ argc \in {1, 3}

\* number of particles that were alive and due for a collision when the
\* current tick began
DueAtStart ==
    Cardinality({i \in Slots(snap) : snap[i].alive /\ Due(snap[i].distance_to_collision)})

\* steps left in the iteration of the scan loop the program is in
TickStage(p) ==
    CASE p = "scan" -> 3
      [] p \in {"spawn", "resample"} -> 2
      [] p = "move" -> 1
      [] OTHER -> 0

\* C14: every tick terminates although the store may grow while it is scanned,
\* and the store's length during and at the end of the tick is at most its length
\* at the start plus floor(nu) times the number of particles that were alive and
\* due at the start. Termination: inside a tick the step of the current position
\* is always possible, and every step lowers, in lexicographic order, the variant
\* (collisions left of those due at the start, progeny still to create, slots
\* not yet scanned, steps left in the iteration), whose components stay >= 0
C14_TickEnds ==
    /\ []((pc \in TickPcs \cup {"draw"}) =>
            Len(neuts) <= Len(snap) + (NuNum \div NuDen) * DueAtStart)
    /\ []((pc \in TickPcs) =>
            CASE pc = "scan" ->
                   ENABLED (TickEnd \/ Skip \/ NoCollide
                               \/ \E k \in XiDraws, k2 \in YieldDraws : Collide(k, k2))
              [] pc = "spawn" ->
                   ENABLED (\E udir \in Dirs, k \in FlightDraws, realloc \in BOOLEAN :
                               Spawn(udir, k, realloc))
              [] pc = "resample" ->
                   ENABLED (\E udir \in Dirs, k \in FlightDraws : Resample(udir, k))
              [] pc = "move" -> ENABLED Move)
    /\ [][(pc \in TickPcs) =>
            \/ /\ collided # collided'
               /\ collided \subseteq collided'
               /\ Cardinality(collided') <= DueAtStart
            \/ /\ collided' = collided
               /\ 0 <= n_new' /\ n_new' < n_new
            \/ /\ collided' = collided /\ n_new' = n_new
               /\ nn' <= Len(neuts') + 1
               /\ Len(neuts') - nn' < Len(neuts) - nn
            \/ /\ collided' = collided /\ n_new' = n_new
               /\ Len(neuts') - nn' = Len(neuts) - nn
               /\ TickStage(pc') < TickStage(pc)]_vars

\* a tick has ended in which fission made the store longer
C14_Witness == pc = "draw" /\ Len(neuts) > Len(snap) /\ DueAtStart > 0

\* C15: every particle that is alive at the end of a tick was advanced exactly
\* once in that tick, by direction*vel*dt from the position it had when the tick
\* began or, for a fission progeny of the tick, from the position it was created
\* at, whether its slot lies before or after its parent's
C15_AllAdvanced ==
    pc = "draw" =>
        \A i \in Slots(neuts) :
            neuts[i].alive => neuts[i].r = VAdd(origin[i], neuts[i].u, vel * dt)

\* C15 as amended: at the end of a tick every live particle was advanced at most
\* once. It was advanced exactly once, by direction*vel*dt, when the cursor
\* visited it: a particle alive since the tick began, or a progeny created in a
\* slot ahead of the cursor. A progeny recycled into a slot the cursor had already
\* passed is not advanced in that tick, and neither is a fission parent whose
\* motion was written through the reference n after an append reallocated the vector
C15_AdvancedWhenVisited ==
    pc = "draw" =>
        \A i \in Slots(neuts) :
            neuts[i].alive =>
                IF i \in behind \cup dangled
                THEN neuts[i].r = origin[i]
                ELSE neuts[i].r = VAdd(origin[i], neuts[i].u, vel * dt)

\* a tick with dt > 0 has ended with one progeny in a slot behind its parent,
\* not advanced, and another in a slot ahead of it, advanced
C15_Witness ==
    /\ pc = "draw" /\ dt > 0
    /\ \E i \in behind : neuts[i].alive
    /\ \E j \in made \ behind : neuts[j].alive /\ neuts[j].r # origin[j]

\* C17 as stated: for N = 0 and N = 1, initialize_neutrons completes and applies
\* a floor of at least one row and one column, so the store it leaves is not empty
C17_Floor ==
    (pc = "idle" /\ tickNo = 0 /\ n_neuts <= 1) =>
        /\ GridRows(n_neuts) >= 1 /\ GridCols(n_neuts) >= 1
        /\ Len(neuts) >= 1

\* C17 as amended: for N = 0 and N = 1, initialize_neutrons completes with
\* rows = cols = 0 (the spacings divide by rows + 1 and cols + 1, which are 1) and
\* leaves an empty store; every later tick and draw visits no slot and leaves it empty
C17_EmptyStore ==
    (argc = 2 /\ pc # "start" /\ n_neuts <= 1) =>
        /\ GridRows(n_neuts) = 0 /\ GridCols(n_neuts) = 0
        /\ GridRows(n_neuts) + 1 > 0 /\ GridCols(n_neuts) + 1 > 0
        /\ neuts = <<>>
        /\ pc \in {"idle", "scan", "draw", "quit"}
        /\ collided = {} /\ made = {}

\* the program was started with N = 1 and has run a tick with dt > 0 on its store
C17_Witness == pc = "draw" /\ n_neuts = 1 /\ dt > 0 /\ nn = 1

\* C18: every variate randf() = xi / RAND_MAX used to select a collision outcome
\* lies in [0, 1), the value 1 is never produced, and the draw lies in one of the
\* bands [0, p_capture), [p_capture, p_capture + p_fission),
\* [p_capture + p_fission, 1), with p_capture = sig_c/sig_t and p_fission = sig_f/sig_t
C18_HalfOpen ==
    outcome # "none" =>
        /\ 0 <= xi /\ xi < RAND_MAX
        /\ \/ 0 <= xi * sig_t /\ xi * sig_t < sig_c * RAND_MAX
           \/ sig_c * RAND_MAX <= xi * sig_t /\ xi * sig_t < (sig_c + sig_f) * RAND_MAX
           \/ (sig_c + sig_f) * RAND_MAX <= xi * sig_t /\ xi * sig_t < sig_t * RAND_MAX

====
